---- MODULE Spec2Model ----
(***************************************************************************)
(* px - a command line argument parser.  Model of the argument registry    *)
(* (px::command_line), its slots (px::tag_argument over scalar<bool>,      *)
(* scalar<T>, multi_scalar<T>; px::positional_argument) and of             *)
(* command_line::parse, after src/src/px.cpp.                              *)
(*                                                                         *)
(* A token is a sequence of one-character strings; a token stream is a     *)
(* sequence of tokens.  C++ iterators are 0-based offsets into the stream: *)
(* the token at offset i is toks[i + 1], and end is Len(toks).             *)
(***************************************************************************)
EXTENDS Integers, Sequences, FiniteSets, TLC

VARIABLES arguments, positional_arguments, call

vars == <<arguments, positional_arguments, call>>

---------------------------------------------------------------------------
(* Tokens *)

Digits == {"0", "1", "2", "3", "4", "5", "6", "7", "8", "9"}

DigitValue(c) ==
    CASE c = "0" -> 0 [] c = "1" -> 1 [] c = "2" -> 2 [] c = "3" -> 3
      [] c = "4" -> 4 [] c = "5" -> 5 [] c = "6" -> 6 [] c = "7" -> 7
      [] c = "8" -> 8 [] c = "9" -> 9

isdigit(c) == c \in Digits

isspace(c) == c = " "

\* width of int: std::numeric_limits<int>::max() is 2^(IntBits - 1) - 1
IntBits == 32

IntMax == (2 ^ (IntBits - 2) - 1) * 2 + 1

IntMin == -IntMax - 1

\* the tokens used below
Prog == <<"p">>
TagF == <<"-", "f">>
TagI == <<"-", "i">>
TagS == <<"-", "s">>
TagInts == <<"-", "-", "n">>
TagFlag == <<"-", "-", "f">>
Separator == <<"-", "-">>
Tok3 == <<"3">>
Tok4 == <<"4">>
TokX == <<"x">>

\* an empty optional (std::nullopt), and a bind target the library never wrote
None == <<>>

Some(v) == <<v>>

---------------------------------------------------------------------------
(* detail:: *)

\* the run of digits of s from index i on: the index after it, minus the
\* number it spells (the magnitude of INT_MIN is not an int), and whether
\* that number is beyond the magnitude of INT_MIN
RECURSIVE DigitRun(_, _, _, _)
DigitRun(s, i, neg, big) ==
    IF i <= Len(s) /\ isdigit(s[i])
    THEN LET d == DigitValue(s[i])
             fits == ~big /\ (neg > -(IntMax \div 10)
                              \/ (neg = -(IntMax \div 10) /\ d <= 8))
         IN  DigitRun(s, i + 1, IF fits THEN neg * 10 - d ELSE neg, ~fits)
    ELSE [next |-> i, neg |-> neg, big |-> big]

RECURSIVE SkipSpace(_, _)
SkipSpace(s, i) ==
    IF i <= Len(s) /\ isspace(s[i]) THEN SkipSpace(s, i + 1) ELSE i

IsSign(s, b) == b <= Len(s) /\ s[b] \in {"-", "+"}

\* the state of the stream after the digits were read: eof is set iff the
\* digits ran to the end of the token, fail iff no digit was read or the
\* value is out of the range of int
ExtractResult(s, d, minus, run) ==
    LET range == run.big \/ (~minus /\ run.neg = IntMin)
    IN  [eof |-> run.next > Len(s),
         fail |-> run.next = d \/ range,
         val |-> IF range THEN 0 ELSE IF minus THEN run.neg ELSE -run.neg]

\* the optional sign at index b and the digits after it
ExtractSigned(s, b) ==
    LET d == IF IsSign(s, b) THEN b + 1 ELSE b
    IN  ExtractResult(s, d, IsSign(s, b) /\ s[b] = "-",
                      DigitRun(s, d, 0, FALSE))

\* stream >> t for T = int: leading whitespace is skipped, then an optional
\* sign and decimal digits are read
ExtractInt(s) == ExtractSigned(s, SkipSpace(s, 1))

\* if (stream.fail()) throw ...; return t;
ExtractedOrThrow_fail_only(x) ==
    IF x.fail
    THEN [ok |-> FALSE, val |-> 0]
    ELSE [ok |-> TRUE, val |-> x.val]

\* if (!stream.eof() || stream.fail()) throw ...; return t;
ExtractedOrThrow(x) ==
    IF ~x.eof \/ x.fail
    THEN [ok |-> FALSE, val |-> 0]
    ELSE [ok |-> TRUE, val |-> x.val]

\* parse_scalar<T>: the decoded value, or a failure (the runtime_error
\* "could not parse from ...")
parse_scalar(typ, s) ==
    IF typ = "string"
    THEN [ok |-> TRUE, val |-> s]
    ELSE ExtractedOrThrow(ExtractInt(s))

\* the message of the runtime_error of parse_scalar, in pieces
could_not_parse(s) == <<"could not parse from '", s, "'">>

is_separator_tag(s) == Len(s) = 2 /\ s[1] = "-" /\ s[2] = "-"

\* is_short_tag without the test for a digit
is_short_tag_any(s) == Len(s) > 1 /\ s[1] = "-"

is_short_tag(s) == Len(s) > 1 /\ s[1] = "-" /\ ~isdigit(s[2])

is_alternate_tag(s) ==
    Len(s) > 2 /\ s[1] = "-" /\ s[2] = "-" /\ ~isdigit(s[3])

is_tag(s) ==
    /\ s # <<>>
    /\ ~is_separator_tag(s)
    /\ (is_short_tag(s) \/ is_alternate_tag(s))

---------------------------------------------------------------------------
(* Validators: the std::function<bool(const value_type&)> a slot holds,    *)
(* named.  "any" is the default of px.cpp:195/235; the others are the      *)
(* predicates of test/testpx.cpp (t > 3, t < 3, all_less_than_3,           *)
(* all_less_than_5).                                                       *)

DefaultValidator == "any"

RECURSIVE AllLess(_, _)
AllLess(v, n) ==
    IF v = <<>> THEN TRUE ELSE Head(v) < n /\ AllLess(Tail(v), n)

Accepts(validator, v) ==
    CASE validator = "any" -> TRUE
      [] validator = "gt3" -> v > 3
      [] validator = "lt3" -> v < 3
      [] validator = "all_less_than_3" -> AllLess(v, 3)
      [] validator = "all_less_than_5" -> AllLess(v, 5)

---------------------------------------------------------------------------
(* Slots.  A tag slot is tag_argument<T, storage>: kind names the storage  *)
(* ("flag": scalar<bool>, "value": scalar<T>, "multi": multi_scalar<T>),   *)
(* typ names T.  value is a BOOLEAN for a flag, an optional for a value    *)
(* slot and a sequence for a multi slot.  bound says bound_variable is not *)
(* nullptr and target is the content of the bound location (None until     *)
(* the library writes it).                                                 *)

NewTagSlot(kind, typ, name, tag) ==
    [kind |-> kind, typ |-> typ, name |-> name, tag |-> tag,
     alternate_tag |-> <<>>,
     value |-> IF kind = "flag" THEN FALSE ELSE <<>>,
     bound |-> FALSE, target |-> None,
     required |-> FALSE, validator |-> DefaultValidator,
     default_value |-> None]

NewPositional(typ, name) ==
    [typ |-> typ, name |-> name, value |-> None,
     bound |-> FALSE, target |-> None, validator |-> DefaultValidator]

\* storage::has_value
has_value(a) ==
    CASE a.kind = "flag" -> TRUE
      [] a.kind = "value" -> a.value # None
      [] a.kind = "multi" -> a.value # <<>>

\* storage::get_value, where it does not throw
stored(a) == IF a.kind = "value" THEN a.value[1] ELSE a.value

\* tag_argument::matches without the two tests for an empty tag
matches_empty(a, s) == a.tag = s \/ a.alternate_tag = s

\* tag_argument::matches
matches(a, s) ==
    \/ (a.tag # <<>> /\ a.tag = s)
    \/ (a.alternate_tag # <<>> /\ a.alternate_tag = s)

\* is_valid without the !required of its else branch
is_valid_needs_value(a) ==
    has_value(a) /\ Accepts(a.validator, stored(a))

\* tag_argument::is_valid
is_valid(a) ==
    IF has_value(a) THEN Accepts(a.validator, stored(a)) ELSE ~a.required

\* the calls of the validator that tag_argument::is_valid makes
validator_calls(a) == IF has_value(a) THEN 1 ELSE 0

\* positional_argument::is_valid
positional_is_valid(p) ==
    p.value # None /\ Accepts(p.validator, p.value[1])

\* a parse step that leaves the bound variable alone
write_bound_never(a) == a

\* if (bound_variable != nullptr) *bound_variable = value.get_value();
write_bound(a) ==
    IF a.bound THEN [a EXCEPT !.target = Some(stored(a))] ELSE a

---------------------------------------------------------------------------
(* The parse steps.  A step returns the slot, the offset it returns        *)
(* (pos), err ("none", or "decode" for parse_scalar's runtime_error, or    *)
(* "ub" for a read outside the stream that traps) and oob: whether it read *)
(* outside the stream.  A read outside the stream is undefined: it traps   *)
(* or yields some token g, which the caller of parse cannot choose.        *)

Trap == <<"SIGSEGV">>

\* value = r, in a step that returns offset i
store(a, i, oob, r) ==
    IF r.ok
    THEN [slot |-> [a EXCEPT !.value = Some(r.val)], pos |-> i,
          err |-> "none", oob |-> oob]
    ELSE [slot |-> a, pos |-> i, err |-> "decode", oob |-> oob]

\* scalar<T>::parse, called with begin at offset i
scalar_parse(a, toks, i, g) ==
    IF i >= Len(toks)
    THEN IF g = Trap
         THEN [slot |-> a, pos |-> i, err |-> "ub", oob |-> TRUE]
         ELSE store(a, i, TRUE, parse_scalar(a.typ, g))
    ELSE store(a, i, FALSE, parse_scalar(a.typ, toks[i + 1]))

\* the for loop of multi_scalar<T>::parse, at offset i, and its body
\* value.push_back(r) at offset i
RECURSIVE multi_scalar_loop(_, _, _)
RECURSIVE push_back(_, _, _, _)
push_back(a, toks, i, r) ==
    IF r.ok
    THEN multi_scalar_loop([a EXCEPT !.value = Append(@, r.val)], toks, i + 1)
    ELSE [slot |-> a, pos |-> i, err |-> "decode", oob |-> FALSE]

multi_scalar_loop(a, toks, i) ==
    IF i # Len(toks) /\ ~is_tag(toks[i + 1])
    THEN push_back(a, toks, i, parse_scalar(a.typ, toks[i + 1]))
    ELSE [slot |-> a, pos |-> i, err |-> "none", oob |-> FALSE]

\* --i after the loop
step_back(r) == IF r.err = "none" THEN [r EXCEPT !.pos = @ - 1] ELSE r

\* multi_scalar<T>::parse, called with begin at offset i
multi_scalar_parse(a, toks, i) ==
    IF Len(toks) - i > 0
    THEN step_back(multi_scalar_loop(a, toks, i))
    ELSE [slot |-> a, pos |-> i, err |-> "none", oob |-> FALSE]

\* scalar<bool>::parse with value = !value for value = true
flag_toggle(a, i) ==
    [slot |-> [a EXCEPT !.value = ~@], pos |-> i, err |-> "none",
     oob |-> FALSE]

\* scalar<bool>::parse
flag_parse(a, i) ==
    [slot |-> [a EXCEPT !.value = TRUE], pos |-> i, err |-> "none",
     oob |-> FALSE]

\* value.parse(i, end) by the slot's storage
storage_parse(a, toks, i, g) ==
    CASE a.kind = "flag"  -> flag_parse(a, i)
      [] a.kind = "value" -> scalar_parse(a, toks, i, g)
      [] a.kind = "multi" -> multi_scalar_parse(a, toks, i)

\* the write to the bound variable that follows value.parse, unless
\* value.parse threw
then_write_bound(r) ==
    IF r.err = "none" THEN [r EXCEPT !.slot = write_bound(@)] ELSE r

\* tag_argument<T, storage>::parse without the call of matches
tag_argument_parse_unmatched(a, toks, begin, g) ==
    IF Len(toks) - begin >= 1
    THEN then_write_bound(
             storage_parse(a, toks,
                           IF a.kind # "flag" THEN begin + 1 ELSE begin, g))
    ELSE [slot |-> a, pos |-> begin, err |-> "none", oob |-> FALSE]

\* tag_argument<T, storage>::parse
tag_argument_parse(a, toks, begin, g) ==
    IF Len(toks) - begin >= 1 /\ matches(a, toks[begin + 1])
    THEN then_write_bound(
             storage_parse(a, toks,
                           IF a.kind # "flag" THEN begin + 1 ELSE begin, g))
    ELSE [slot |-> a, pos |-> begin, err |-> "none", oob |-> FALSE]

\* value = r and the write to the bound variable
positional_store(p, begin, r) ==
    IF r.ok
    THEN [slot |-> [p EXCEPT !.value = Some(r.val),
                             !.target = IF p.bound THEN Some(r.val) ELSE @],
          pos |-> begin, err |-> "none", oob |-> FALSE]
    ELSE [slot |-> p, pos |-> begin, err |-> "decode", oob |-> FALSE]

\* positional_argument<T>::parse (begin is inside the stream)
positional_argument_parse(p, toks, begin, g) ==
    positional_store(p, begin, parse_scalar(p.typ, toks[begin + 1]))

\* arg->parse(argv, end) by the slot's dynamic type
arg_parse(a, toks, begin, g) ==
    IF "kind" \in DOMAIN a
    THEN tag_argument_parse(a, toks, begin, g)
    ELSE positional_argument_parse(a, toks, begin, g)

\* the lambda parse_all of command_line::parse, from slot k on: every slot
\* in declaration order is given the offset the slot before it returned;
\* parse_all_step is argv = arg->parse(argv, end) for slot k, whose parse
\* returned r
RECURSIVE parse_all_from(_, _, _, _, _, _)
RECURSIVE parse_all_step(_, _, _, _, _, _)
parse_all_step(slots, k, toks, g, oob, r) ==
    IF r.err # "none"
    THEN [slots |-> [slots EXCEPT ![k] = r.slot], pos |-> r.pos,
          err |-> r.err, who |-> slots[k].name, oob |-> oob \/ r.oob]
    ELSE parse_all_from([slots EXCEPT ![k] = r.slot], k + 1, toks, r.pos, g,
                        oob \/ r.oob)

parse_all_from(slots, k, toks, argv, g, oob) ==
    IF k > Len(slots)
    THEN [slots |-> slots, pos |-> argv, err |-> "none", who |-> "",
          oob |-> oob]
    ELSE parse_all_step(slots, k, toks, g, oob,
                        arg_parse(slots[k], toks, argv, g))

parse_all(slots, toks, argv, g) == parse_all_from(slots, 1, toks, argv, g, FALSE)

\* the tag loop of command_line::parse (px.cpp:601-608) at its condition,
\* separator_found being false; tag_loop_step is the rest of an iteration
\* in which parse_all returned r.  An offset beyond end is never equal to
\* end again: the loop goes on reading outside the stream until a read
\* traps.
RECURSIVE tag_loop(_, _, _, _, _)
RECURSIVE tag_loop_step(_, _, _, _)
\* the rest of an iteration of a tag loop that steps over the token after
\* the one it offered
tag_loop_step_twice(toks, g, oob, r) ==
    IF r.err # "none"
    THEN [slots |-> r.slots, pos |-> r.pos, sep |-> FALSE,
          err |-> r.err, who |-> r.who, oob |-> oob \/ r.oob]
    ELSE tag_loop(r.slots, toks,
                  IF r.pos + 2 > Len(toks) THEN Len(toks) ELSE r.pos + 2,
                  g, oob \/ r.oob)

tag_loop_step(toks, g, oob, r) ==
    IF r.err # "none"
    THEN [slots |-> r.slots, pos |-> r.pos, sep |-> FALSE,
          err |-> r.err, who |-> r.who, oob |-> oob \/ r.oob]
    ELSE tag_loop(r.slots, toks, r.pos + 1, g, oob \/ r.oob)

\* the tag loop without separator_found: the separator is offered to the
\* tag slots like any other token
tag_loop_through_separator(args, toks, argv, g, oob) ==
    IF argv > Len(toks)
    THEN [slots |-> args, pos |-> argv, sep |-> FALSE, err |-> "ub",
          who |-> "", oob |-> TRUE]
    ELSE IF argv = Len(toks)
    THEN [slots |-> args, pos |-> argv, sep |-> FALSE, err |-> "none",
          who |-> "", oob |-> oob]
    ELSE tag_loop_step(toks, g, oob, parse_all(args, toks, argv, g))

tag_loop(args, toks, argv, g, oob) ==
    IF argv > Len(toks)
    THEN [slots |-> args, pos |-> argv, sep |-> FALSE, err |-> "ub",
          who |-> "", oob |-> TRUE]
    ELSE IF argv = Len(toks)
    THEN [slots |-> args, pos |-> argv, sep |-> FALSE, err |-> "none",
          who |-> "", oob |-> oob]
    ELSE IF is_separator_tag(toks[argv + 1])
    THEN [slots |-> args, pos |-> argv + 1, sep |-> TRUE, err |-> "none",
          who |-> "", oob |-> oob]
    ELSE tag_loop_step(toks, g, oob, parse_all(args, toks, argv, g))

\* the positional loop of command_line::parse (px.cpp:612-616) at its
\* condition, and the rest of an iteration in which parse_all returned r
RECURSIVE positional_loop(_, _, _, _)
RECURSIVE positional_loop_step(_, _, _)
\* the rest of an iteration of a positional loop that ends after its
\* first iteration
positional_loop_step_once(toks, g, r) ==
    [slots |-> r.slots, pos |-> r.pos, err |-> r.err, who |-> r.who]

positional_loop_step(toks, g, r) ==
    IF r.err # "none"
    THEN [slots |-> r.slots, pos |-> r.pos, err |-> r.err, who |-> r.who]
    ELSE positional_loop(r.slots, toks, r.pos + 1, g)

positional_loop(pargs, toks, argv, g) ==
    IF argv = Len(toks)
    THEN [slots |-> pargs, pos |-> argv, err |-> "none", who |-> ""]
    ELSE positional_loop_step(toks, g, parse_all(pargs, toks, argv, g))

\* arg->is_valid() by the slot's dynamic type
arg_is_valid(a) ==
    IF "kind" \in DOMAIN a THEN is_valid(a) ELSE positional_is_valid(a)

\* detail::find_invalid searching from the back: the index of the last
\* invalid slot, 0 for end
find_invalid_last(slots) ==
    IF \A k \in 1..Len(slots) : arg_is_valid(slots[k])
    THEN 0
    ELSE CHOOSE k \in 1..Len(slots) :
            /\ ~arg_is_valid(slots[k])
            /\ \A j \in (k + 1)..Len(slots) : arg_is_valid(slots[j])

\* detail::find_invalid: the index of the first invalid slot, 0 for end
find_invalid(slots) ==
    IF \A k \in 1..Len(slots) : arg_is_valid(slots[k])
    THEN 0
    ELSE CHOOSE k \in 1..Len(slots) :
            /\ ~arg_is_valid(slots[k])
            /\ \A j \in 1..(k - 1) : arg_is_valid(slots[j])

\* what parse ends with when find_invalid gave ia for the tag slots and ip
\* for the positional slots
thrown(args, pargs, oob, ia, ip) ==
    [arguments |-> args, positional_arguments |-> pargs,
     err |-> IF ia = 0 /\ ip = 0 THEN "none" ELSE "invalid",
     who |-> IF ia # 0 THEN args[ia].name
             ELSE IF ip # 0 THEN pargs[ip].name ELSE "",
     oob |-> oob]

\* the two throw_on_invalid calls that end command_line::parse
throw_on_invalid(args, pargs, oob) ==
    thrown(args, pargs, oob, find_invalid(args), find_invalid(pargs))

\* command_line::parse from line 610 on, the positional loop having ended
\* as p (an exception of a parse step leaves parse at once)
after_positional_loop(args, oob, p) ==
    IF p.err # "none"
    THEN [arguments |-> args, positional_arguments |-> p.slots,
          err |-> p.err, who |-> p.who, oob |-> oob]
    ELSE throw_on_invalid(args, p.slots, oob)

\* command_line::parse from line 610 on without the reset of argv to
\* begin + 1 that line 611 makes when no separator was found
after_tag_loop_no_restart(pargs, toks, g, t) ==
    IF t.err # "none"
    THEN [arguments |-> t.slots, positional_arguments |-> pargs,
          err |-> t.err, who |-> t.who, oob |-> t.oob]
    ELSE IF pargs # <<>>
    THEN after_positional_loop(t.slots, t.oob,
             positional_loop(pargs, toks, t.pos, g))
    ELSE throw_on_invalid(t.slots, pargs, t.oob)

\* command_line::parse from line 610 on, the tag loop having ended as t
after_tag_loop(pargs, toks, g, t) ==
    IF t.err # "none"
    THEN [arguments |-> t.slots, positional_arguments |-> pargs,
          err |-> t.err, who |-> t.who, oob |-> t.oob]
    ELSE IF pargs # <<>>
    THEN after_positional_loop(t.slots, t.oob,
             positional_loop(pargs, toks, IF t.sep THEN t.pos ELSE 1, g))
    ELSE throw_on_invalid(t.slots, pargs, t.oob)

\* command_line::parse with the two throw_on_invalid calls inside the
\* if (std::distance(argv, end) > 0) block, as in include/px.h
command_line_parse_checks_inside(args, pargs, toks, g) ==
    IF Len(toks) > 0
    THEN after_tag_loop(pargs, toks, g, tag_loop(args, toks, 1, g, FALSE))
    ELSE [arguments |-> args, positional_arguments |-> pargs,
          err |-> "none", who |-> "", oob |-> FALSE]

\* command_line::parse(std::span<const std::string>): the registry it
\* leaves and the exception it ends with, if any
command_line_parse(args, pargs, toks, g) ==
    IF Len(toks) > 0
    THEN after_tag_loop(pargs, toks, g, tag_loop(args, toks, 1, g, FALSE))
    ELSE throw_on_invalid(args, pargs, FALSE)

---------------------------------------------------------------------------
(* The registry and its caller.  arguments and positional_arguments are    *)
(* the two vectors of command_line.  call is the caller's side of the      *)
(* last library call: NoCall while the caller is between calls, else the   *)
(* call made, the exception it ended with (err, who) and the registry it   *)
(* started from.  The library is single-threaded: a call runs to its end   *)
(* before the caller makes the next one.                                   *)

NoCall ==
    [op |-> "none", slot |-> 0, toks |-> <<>>, err |-> "none", who |-> "",
     oob |-> FALSE, ret |-> None,
     pre_arguments |-> <<>>, pre_positional_arguments |-> <<>>]

Called(op, slot, toks, err, who, oob) ==
    [op |-> op, slot |-> slot, toks |-> toks, err |-> err, who |-> who,
     oob |-> oob, ret |-> None, pre_arguments |-> arguments,
     pre_positional_arguments |-> positional_arguments]

\* command_line::command_line
Init ==
    /\ arguments = <<>>
    /\ positional_arguments = <<>>
    /\ call = NoCall

\* prevent_tag_args_after_positional_args with its test inverted
prevent_when_empty(pargs) == pargs = <<>>

\* command_line::prevent_tag_args_after_positional_args: whether it throws
prevent_tag_args_after_positional_args(pargs) == pargs # <<>>

\* The setters return the slot they were called on, and the add_* calls
\* return the new slot: a caller chains them in one statement,
\* cli.add_value_argument<int>(n, t).set_required(true).bind(&q).  chain is
\* the sequence of setters chained to the call: <<"bind">>,
\* <<"set_required", r>>, <<"set_validator", f>>, <<"set_alternate_tag", t>>.
apply_setter(a, c) ==
    CASE c[1] = "bind" -> [a EXCEPT !.bound = TRUE]
      [] c[1] = "set_required" -> [a EXCEPT !.required = c[2]]
      [] c[1] = "set_validator" -> [a EXCEPT !.validator = c[2]]
      [] c[1] = "set_alternate_tag" -> [a EXCEPT !.alternate_tag = c[2]]

RECURSIVE apply_chain(_, _)
apply_chain(a, chain) ==
    IF chain = <<>> THEN a
    ELSE apply_chain(apply_setter(a, Head(chain)), Tail(chain))

\* the body of the three add_* functions with the push_back before the
\* call of prevent_tag_args_after_positional_args
add_tag_argument_push_first(op, kind, typ, name, tag, chain) ==
    /\ call.op = "none"
    /\ arguments' =
           Append(arguments,
                  apply_chain(NewTagSlot(kind, typ, name, tag), chain))
    /\ call' = IF prevent_tag_args_after_positional_args(positional_arguments)
               THEN Called(op, 0, <<>>, "logic", "", FALSE)
               ELSE Called(op, Len(arguments) + 1, <<>>, "none", "", FALSE)
    /\ UNCHANGED positional_arguments

\* the body shared by add_flag_argument, add_value_argument<T> and
\* add_multi_value_argument<T>
add_tag_argument(op, kind, typ, name, tag, chain) ==
    /\ call.op = "none"
    /\ IF prevent_tag_args_after_positional_args(positional_arguments)
       THEN /\ call' = Called(op, 0, <<>>, "logic", "", FALSE)
            /\ UNCHANGED <<arguments, positional_arguments>>
       ELSE /\ arguments' =
                  Append(arguments,
                         apply_chain(NewTagSlot(kind, typ, name, tag), chain))
            /\ call' = Called(op, Len(arguments) + 1, <<>>, "none", "", FALSE)
            /\ UNCHANGED positional_arguments

add_flag_argument(name, tag, chain) ==
    add_tag_argument("add_flag_argument", "flag", "bool", name, tag, chain)

add_value_argument(typ, name, tag, chain) ==
    add_tag_argument("add_value_argument", "value", typ, name, tag, chain)

add_multi_value_argument(typ, name, tag, chain) ==
    add_tag_argument("add_multi_value_argument", "multi", typ, name, tag, chain)

add_positional_argument(typ, name, chain) ==
    /\ call.op = "none"
    /\ positional_arguments' =
           Append(positional_arguments,
                  apply_chain(NewPositional(typ, name), chain))
    /\ call' = Called("add_positional_argument",
                      Len(positional_arguments) + 1, <<>>, "none", "", FALSE)
    /\ UNCHANGED arguments

\* tag_argument::bind on the k-th tag slot
bind(k) ==
    /\ call.op = "none"
    /\ k \in 1..Len(arguments)
    /\ ~arguments[k].bound
    /\ arguments' = [arguments EXCEPT ![k] = apply_setter(@, <<"bind">>)]
    /\ call' = Called("bind", k, <<>>, "none", "", FALSE)
    /\ UNCHANGED positional_arguments

\* positional_argument::bind on the k-th positional slot
positional_bind(k) ==
    /\ call.op = "none"
    /\ k \in 1..Len(positional_arguments)
    /\ ~positional_arguments[k].bound
    /\ positional_arguments' =
          [positional_arguments EXCEPT ![k] = apply_setter(@, <<"bind">>)]
    /\ call' = Called("positional_bind", k, <<>>, "none", "", FALSE)
    /\ UNCHANGED arguments

\* tag_argument::set_required on the k-th tag slot
set_required(k, r) ==
    /\ call.op = "none"
    /\ k \in 1..Len(arguments)
    /\ arguments' =
          [arguments EXCEPT ![k] = apply_setter(@, <<"set_required", r>>)]
    /\ call' = Called("set_required", k, <<>>, "none", "", FALSE)
    /\ UNCHANGED positional_arguments

\* tag_argument::set_validator on the k-th tag slot
set_validator(k, f) ==
    /\ call.op = "none"
    /\ k \in 1..Len(arguments)
    /\ arguments' =
          [arguments EXCEPT ![k] = apply_setter(@, <<"set_validator", f>>)]
    /\ call' = Called("set_validator", k, <<>>, "none", "", FALSE)
    /\ UNCHANGED positional_arguments

\* tag_argument::set_alternate_tag on the k-th tag slot
set_alternate_tag(k, t) ==
    /\ call.op = "none"
    /\ k \in 1..Len(arguments)
    /\ arguments' =
          [arguments EXCEPT ![k] = apply_setter(@, <<"set_alternate_tag", t>>)]
    /\ call' = Called("set_alternate_tag", k, <<>>, "none", "", FALSE)
    /\ UNCHANGED positional_arguments

\* value_argument<T>::set_default_value of the revision src/pax.h on the
\* k-th tag slot; default_value is the field of that revision, which no
\* code of px.cpp reads
set_default_value(k, d) ==
    /\ call.op = "none"
    /\ k \in 1..Len(arguments)
    /\ arguments' = [arguments EXCEPT ![k].default_value = Some(d)]
    /\ call' = Called("set_default_value", k, <<>>, "none", "", FALSE)
    /\ UNCHANGED positional_arguments

\* a call that returned v
Returned(c, v) == [c EXCEPT !.ret = Some(v)]

\* storage::get_value returning a value-initialised T for a missing value
storage_get_value_placeholder(c, a) ==
    Returned(c, IF a.kind = "value" /\ ~has_value(a) THEN 0 ELSE stored(a))

\* storage::get_value: what it returns, or the runtime_error it throws
storage_get_value(c, a) ==
    IF a.kind = "value" /\ ~has_value(a)
    THEN [c EXCEPT !.err = "runtime"]
    ELSE Returned(c, stored(a))

\* tag_argument::get_value on the k-th tag slot
get_value(k) ==
    /\ call.op = "none"
    /\ k \in 1..Len(arguments)
    /\ call' = IF ~is_valid(arguments[k])
               THEN Called("get_value", k, <<>>, "runtime",
                           arguments[k].name, FALSE)
               ELSE storage_get_value(
                        Called("get_value", k, <<>>, "none", "", FALSE),
                        arguments[k])
    /\ UNCHANGED <<arguments, positional_arguments>>

\* tag_argument::is_valid called by the caller on the k-th tag slot: it
\* returns the verdict, and the caller's validator has seen
\* validator_calls calls
query_is_valid(k) ==
    /\ call.op = "none"
    /\ k \in 1..Len(arguments)
    /\ call' = Returned(Called("is_valid", k, <<>>, "none", "", FALSE),
                        [valid |-> is_valid(arguments[k]),
                         calls |-> validator_calls(arguments[k])])
    /\ UNCHANGED <<arguments, positional_arguments>>

\* positional_argument::get_value on the k-th positional slot
positional_get_value(k) ==
    /\ call.op = "none"
    /\ k \in 1..Len(positional_arguments)
    /\ call' = IF positional_arguments[k].value # None
               THEN Returned(
                        Called("positional_get_value", k, <<>>, "none", "",
                               FALSE),
                        positional_arguments[k].value[1])
               ELSE Called("positional_get_value", k, <<>>, "runtime",
                           positional_arguments[k].name, FALSE)
    /\ UNCHANGED <<arguments, positional_arguments>>

\* what a read outside the stream can yield: a trap, or the bytes found
\* there taken for a token
Garbage == {Trap, Tok3, TokX}

\* command_line::parse on the stream toks
\* the outcomes of parse: one, unless the run reads outside the stream
outcomes(args, pargs, toks, r) ==
    IF r.oob
    THEN {command_line_parse(args, pargs, toks, g) : g \in Garbage}
    ELSE {r}

\* command_line::parse restoring the slots it found when it ends with the
\* validation error
parse_rolled_back(toks) ==
    /\ call.op = "none"
    /\ \E r \in outcomes(arguments, positional_arguments, toks,
                         command_line_parse(arguments, positional_arguments,
                                            toks, Trap)) :
          /\ arguments' = IF r.err = "invalid" THEN arguments ELSE r.arguments
          /\ positional_arguments' =
                 IF r.err = "invalid" THEN positional_arguments
                 ELSE r.positional_arguments
          /\ call' = Called("parse", 0, toks, r.err, r.who, r.oob)

parse(toks) ==
    /\ call.op = "none"
    /\ \E r \in outcomes(arguments, positional_arguments, toks,
                         command_line_parse(arguments, positional_arguments,
                                            toks, Trap)) :
          /\ arguments' = r.arguments
          /\ positional_arguments' = r.positional_arguments
          /\ call' = Called("parse", 0, toks, r.err, r.who, r.oob)

\* the caller has looked at the outcome and goes on; a run that trapped
\* has no caller left
Return ==
    /\ call.op # "none"
    /\ call.err # "ub"
    /\ call' = NoCall
    /\ UNCHANGED <<arguments, positional_arguments>>

---------------------------------------------------------------------------
(* Callers.  A specification is the library driven by a class of callers:  *)
(* the slots they declare, the setters they use and the streams they pass. *)
(* A caller declares a tag at most once and names its slots in declaration *)
(* order.                                                                  *)

MaxPositionals == 2
MaxLen == 3
MaxValues == 3

TagNames == <<"a1", "a2", "a3", "a4">>
PositionalNames == <<"p1", "p2", "p3", "p4">>

\* the streams of at most n tokens over vocab after the program name, and
\* the empty stream
Streams(vocab, n) ==
    {<<>>} \cup {<<Prog>> \o body :
                    body \in UNION {[1..k -> vocab] : k \in 0..n}}

Declared(tag) == \E k \in 1..Len(arguments) : arguments[k].tag = tag

NextTagName == TagNames[Len(arguments) + 1]

NextPositionalName == PositionalNames[Len(positional_arguments) + 1]

\* no multi-value list outgrows MaxValues
WithinValues ==
    \A k \in 1..Len(arguments) :
        arguments[k].kind = "multi" => Len(arguments[k].value) <= MaxValues

(* The callers of px_test (test/testpx.cpp:48-101): a flag -f, an int     *)
(* value slot -i and an int positional slot, in any order, each bound in  *)
(* the statement that declares it; the value slot is required or not and  *)
(* has the validator t > 3 or the default one.                            *)

Vocabulary == {TagF, TagI, Separator, Tok3, Tok4}

TestStreams ==
    {<<Prog, TagI, Tok4, TagF, Separator, Tok3>>,
     <<Prog, TagF, TagI, Tok3, Separator, Tok4>>}

AddFlag ==
    /\ ~Declared(TagF)
    /\ add_flag_argument(NextTagName, TagF, <<<<"bind">>>>)

AddValue ==
    /\ ~Declared(TagI)
    /\ \E r \in BOOLEAN, f \in {"any", "gt3"} :
          add_value_argument("int", NextTagName, TagI,
              <<<<"set_required", r>>, <<"set_validator", f>>, <<"bind">>>>)

AddPositional ==
    /\ positional_arguments = <<>>
    /\ add_positional_argument("int", NextPositionalName, <<<<"bind">>>>)

\* two longer streams: a tag given twice, and tags with a positional
\* token and no separator
LongStreams ==
    {<<Prog, TagI, Tok3, TagI, Tok4>>,
     <<Prog, TagI, Tok4, TagF, Tok3>>}

AllStreams == Streams(Vocabulary, MaxLen) \cup TestStreams \cup LongStreams

Parse == \E toks \in AllStreams : parse(toks) /\ WithinValues'

Next ==
    \/ AddFlag
    \/ AddValue
    \/ AddPositional
    \/ Parse
    \/ Return

Spec == Init /\ [][Next]_vars

(* The declaration phase of any caller: flag, value, multi-value and      *)
(* positional slots declared in any order, no stream parsed yet.          *)

DeclareFlag ==
    ~Declared(TagF) /\ add_flag_argument(NextTagName, TagF, <<>>)

DeclareValue ==
    \/ ~Declared(TagI) /\ add_value_argument("int", NextTagName, TagI, <<>>)
    \/ ~Declared(TagS) /\ add_value_argument("string", NextTagName, TagS, <<>>)

DeclareMulti ==
    /\ ~Declared(TagInts)
    /\ add_multi_value_argument("int", NextTagName, TagInts, <<>>)

DeclarePositional ==
    /\ Len(positional_arguments) < MaxPositionals
    /\ \E typ \in {"int", "string"} :
          add_positional_argument(typ, NextPositionalName, <<>>)

NextDeclare ==
    \/ DeclareFlag
    \/ DeclareValue
    \/ DeclareMulti
    \/ DeclarePositional
    \/ Return

SpecDeclare == Init /\ [][NextDeclare]_vars

(* The callers of px_positional_arg_test (test/testpx.cpp:111-155), with  *)
(* up to MaxPositionals bound int positional slots after an optional      *)
(* flag -f.                                                               *)

PositionalVocabulary == {TagF, Separator, Tok3, Tok4}

PositionalStreams == Streams(PositionalVocabulary, MaxLen)

AddNextPositional ==
    /\ Len(positional_arguments) < MaxPositionals
    /\ add_positional_argument("int", NextPositionalName, <<<<"bind">>>>)

ParsePositional ==
    \E toks \in PositionalStreams : parse(toks) /\ WithinValues'

NextPositional ==
    \/ AddFlag
    \/ AddNextPositional
    \/ ParsePositional
    \/ Return

SpecPositional == Init /\ [][NextPositional]_vars

(* The callers of px_multi_value_arg_test (test/testpx.cpp:342-401): a    *)
(* bound multi-value int slot --n, required or not, and a bound flag -f,  *)
(* in either order.                                                       *)

MultiVocabulary == {TagInts, TagF, Separator, Tok3, Tok4}

MultiStreams ==
    Streams(MultiVocabulary, MaxLen)
        \cup {<<Prog, TagInts, Tok3, Tok4, Tok3, TagF>>}

AddMulti ==
    /\ ~Declared(TagInts)
    /\ \E r \in BOOLEAN :
          add_multi_value_argument("int", NextTagName, TagInts,
              <<<<"set_required", r>>, <<"bind">>>>)

ParseMulti == \E toks \in MultiStreams : parse(toks) /\ WithinValues'

NextMulti ==
    \/ AddFlag
    \/ AddMulti
    \/ ParseMulti
    \/ Return

SpecMulti == Init /\ [][NextMulti]_vars

(* The callers of px_flag_arg_test (test/testpx.cpp:280-320): a flag -f,  *)
(* given the alternate tag --f at some point or never, beside a string    *)
(* value slot -s, which takes any token for its value.                    *)

FlagVocabulary == {TagF, TagFlag, TagS, Separator}

FlagStreams == Streams(FlagVocabulary, MaxLen)

AddString ==
    /\ ~Declared(TagS)
    /\ add_value_argument("string", NextTagName, TagS, <<>>)

SetAlternateTag ==
    \E k \in 1..Len(arguments) :
        /\ arguments[k].kind = "flag"
        /\ arguments[k].alternate_tag = <<>>
        /\ set_alternate_tag(k, TagFlag)

ParseFlag == \E toks \in FlagStreams : parse(toks) /\ WithinValues'

NextFlag ==
    \/ DeclareFlag
    \/ AddString
    \/ SetAlternateTag
    \/ ParseFlag
    \/ Return

SpecFlag == Init /\ [][NextFlag]_vars

(* The callers of px_value_arg_test, px_flag_arg_test and                 *)
(* px_multi_value_arg_test that declare one slot (a flag -f, an int value *)
(* slot -i, a multi-value int slot --n or an int positional slot) and     *)
(* then call its setters, parse and get_value in any order.               *)

SlotVocabulary == {TagF, TagI, TagInts, Tok3, Tok4}

SlotStreams == Streams(SlotVocabulary, MaxLen)

Undeclared == arguments = <<>> /\ positional_arguments = <<>>

DeclareOne ==
    /\ Undeclared
    /\ \/ add_flag_argument(NextTagName, TagF, <<>>)
       \/ add_value_argument("int", NextTagName, TagI, <<>>)
       \/ add_multi_value_argument("int", NextTagName, TagInts, <<>>)
       \/ add_positional_argument("int", NextPositionalName, <<>>)

\* the validators the tests give to a slot of kind kind
ValidatorsOf(kind) ==
    IF kind = "multi" THEN {"any", "all_less_than_3"}
    ELSE {"any", "gt3", "lt3"}

SetRequired ==
    \E k \in 1..Len(arguments), r \in BOOLEAN :
        arguments[k].kind # "flag" /\ set_required(k, r)

SetValidator ==
    \E k \in 1..Len(arguments) :
        /\ arguments[k].kind # "flag"
        /\ \E f \in ValidatorsOf(arguments[k].kind) : set_validator(k, f)

SetDefault ==
    \E k \in 1..Len(arguments) :
        arguments[k].kind = "value" /\ set_default_value(k, 3)

Bind ==
    \/ \E k \in 1..Len(arguments) : bind(k)
    \/ \E k \in 1..Len(positional_arguments) : positional_bind(k)

GetValue ==
    \/ \E k \in 1..Len(arguments) : get_value(k)
    \/ \E k \in 1..Len(positional_arguments) : positional_get_value(k)

IsValid == \E k \in 1..Len(arguments) : query_is_valid(k)

ParseSlot == \E toks \in SlotStreams : parse(toks) /\ WithinValues'

NextSlot ==
    \/ DeclareOne
    \/ SetRequired
    \/ SetValidator
    \/ SetDefault
    \/ Bind
    \/ GetValue
    \/ IsValid
    \/ ParseSlot
    \/ Return

SpecSlot == Init /\ [][NextSlot]_vars

(* The functions of detail:: on their own: every token of at most         *)
(* MaxToken characters over TokenAlphabet is given to is_tag and to       *)
(* parse_scalar<int> and parse_scalar<std::string>.  call.toks holds the  *)
(* token, call.ret what the function returned or threw.                   *)

MaxToken == 3

TokenAlphabet == {"-", "5", "x", " "}

Tokens == UNION {[1..k -> TokenAlphabet] : k \in 0..MaxToken}

InitToken ==
    /\ arguments = <<>>
    /\ positional_arguments = <<>>
    /\ call \in {[NoCall EXCEPT !.op = "token", !.toks = <<s>>] :
                    s \in Tokens}

IsTag ==
    /\ call.op = "token"
    /\ call' = Returned([call EXCEPT !.op = "is_tag"], is_tag(call.toks[1]))
    /\ UNCHANGED <<arguments, positional_arguments>>

\* parse_scalar<T>(s) returned r
Decoded(c, typ, s, r) ==
    IF r.ok
    THEN Returned(c, [typ |-> typ, ok |-> TRUE, val |-> r.val,
                      what |-> <<>>])
    ELSE Returned([c EXCEPT !.err = "runtime"],
                  [typ |-> typ, ok |-> FALSE, val |-> r.val,
                   what |-> could_not_parse(s)])

ParseScalar ==
    /\ call.op = "token"
    /\ \E typ \in {"int", "string"} :
          call' = Decoded([call EXCEPT !.op = "parse_scalar"], typ,
                          call.toks[1], parse_scalar(typ, call.toks[1]))
    /\ UNCHANGED <<arguments, positional_arguments>>

\* flags with the tag -x or the empty tag, the alternate tag --x or none
MatchSlots ==
    {apply_setter(NewTagSlot("flag", "bool", "a1", t),
                  <<"set_alternate_tag", alt>>) :
        t \in {<<"-", "x">>, <<>>}, alt \in {<<"-", "-", "x">>, <<>>}}

\* a.matches(s) for a slot a of MatchSlots
Matches ==
    /\ call.op = "token"
    /\ \E a \in MatchSlots :
          call' = Returned([call EXCEPT !.op = "matches"],
                           [tag |-> a.tag, alternate_tag |-> a.alternate_tag,
                            matched |-> matches(a, call.toks[1])])
    /\ UNCHANGED <<arguments, positional_arguments>>

NextToken ==
    \/ IsTag
    \/ ParseScalar
    \/ Matches

SpecToken == InitToken /\ [][NextToken]_vars

(* The callers of can_parse_integral_value_arg and its like                *)
(* (test/testpx.cpp:121-130, 165-175, 342-350), which build the stream     *)
(* with std::to_string: an int value slot -i, a multi-value int slot --n   *)
(* and int positional slots, parsed once with the decimal tokens of the    *)
(* integers of -MaxNumber..MaxNumber.                                      *)

MaxNumber == 10

Numbers == (-MaxNumber)..MaxNumber

DigitChars == <<"0", "1", "2", "3", "4", "5", "6", "7", "8", "9">>

\* the decimal digits of n >= 0, most significant first
RECURSIVE Decimal(_)
Decimal(n) ==
    IF n < 10
    THEN <<DigitChars[n + 1]>>
    ELSE Decimal(n \div 10) \o <<DigitChars[(n % 10) + 1]>>

\* std::to_string(int)
to_string(n) == IF n < 0 THEN <<"-">> \o Decimal(-n) ELSE Decimal(n)

NumberStreams ==
    UNION {{<<Prog, TagI, to_string(n)>>,
            <<Prog, to_string(n)>>,
            <<Prog, Separator, to_string(n)>>} : n \in Numbers}
        \cup {<<Prog, TagInts, to_string(n), to_string(m)>> :
                 n \in Numbers, m \in Numbers}

DeclareInt ==
    ~Declared(TagI) /\ add_value_argument("int", NextTagName, TagI, <<>>)

ParseNumber ==
    /\ \A k \in 1..Len(arguments) : ~has_value(arguments[k])
    /\ \A k \in 1..Len(positional_arguments) :
          positional_arguments[k].value = None
    /\ \E toks \in NumberStreams : parse(toks) /\ WithinValues'

NextNumber ==
    \/ DeclareInt
    \/ DeclareMulti
    \/ AddNextPositional
    \/ ParseNumber
    \/ Return

SpecNumber == Init /\ [][NextNumber]_vars

(* Callers with several slots that can be invalid at once: an int value   *)
(* slot -i and a multi-value int slot --n, each required or not, in       *)
(* either order, and up to MaxPositionals int positional slots.           *)

RequiredVocabulary == {TagI, TagInts, Tok3}

\* and the stream of a multi-value list, a separator and a positional token
RequiredStreams ==
    Streams(RequiredVocabulary, MaxLen)
        \cup {<<Prog, TagInts, Tok3, Tok4, Separator, Tok3>>}

AddRequired ==
    /\ ~Declared(TagI)
    /\ \E r \in BOOLEAN :
          add_value_argument("int", NextTagName, TagI,
                             <<<<"set_required", r>>>>)

ParseRequired == \E toks \in RequiredStreams : parse(toks) /\ WithinValues'

NextRequired ==
    \/ AddRequired
    \/ AddMulti
    \/ AddNextPositional
    \/ ParseRequired
    \/ Return

SpecRequired == Init /\ [][NextRequired]_vars

---------------------------------------------------------------------------
(* Properties.  They read the caller's side of the last call: the call     *)
(* made, the registry it started from (call.pre_arguments,                 *)
(* call.pre_positional_arguments) and the registry it left.                *)

TagAddOps ==
    {"add_flag_argument", "add_value_argument", "add_multi_value_argument"}

\* decode of an int token
decode(t) == parse_scalar("int", t).val

decodes(t) == parse_scalar("int", t).ok

\* the index of the slot declared with tag t
slot_with(args, t) == CHOOSE k \in 1..Len(args) : args[k].tag = t

occurs(t, toks) == \E j \in 2..Len(toks) : toks[j] = t

\* a registry of one flag -f, one int value slot -i and one positional slot
IsFixture(args, pargs) ==
    /\ Len(args) = 2
    /\ Len(pargs) = 1
    /\ \E k \in 1..2 : args[k].kind = "flag" /\ args[k].tag = TagF
    /\ \E k \in 1..2 : args[k].kind = "value" /\ args[k].tag = TagI

\* no slot of the registry has been given a value
Fresh(args, pargs) ==
    /\ \A k \in 1..Len(args) :
          /\ args[k].value = (IF args[k].kind = "flag" THEN FALSE ELSE <<>>)
          /\ args[k].target = None
    /\ \A k \in 1..Len(pargs) :
          pargs[k].value = None /\ pargs[k].target = None

\* C1: add_flag_argument, add_value_argument and add_multi_value_argument,
\* called on a registry that holds a positional slot, end with a logic
\* error and leave both slot lists as they were, whatever was declared
\* before; add_positional_argument never fails and appends one slot.
C1_TagAfterPositionalIsRejected ==
    /\ (call.op \in TagAddOps /\ call.pre_positional_arguments # <<>>)
          => /\ call.err = "logic"
             /\ arguments = call.pre_arguments
             /\ positional_arguments = call.pre_positional_arguments
    /\ call.op = "add_positional_argument"
          => /\ call.err = "none"
             /\ arguments = call.pre_arguments
             /\ Len(positional_arguments) =
                    Len(call.pre_positional_arguments) + 1

\* a multi-value declaration rejected on a registry that holds tag slots
\* and positional slots
C1_Witness ==
    /\ call.op = "add_multi_value_argument"
    /\ call.err = "logic"
    /\ Len(call.pre_arguments) >= 2
    /\ Len(call.pre_positional_arguments) >= 1

\* tag tokens: groups -f and -i n, n a decodable token, and nothing else
RECURSIVE TagGroups(_)
TagGroups(s) ==
    IF s = <<>> THEN TRUE
    ELSE IF Head(s) = TagF THEN TagGroups(Tail(s))
    ELSE IF Head(s) = TagI /\ Len(s) >= 2 /\ decodes(s[2])
    THEN TagGroups(SubSeq(s, 3, Len(s)))
    ELSE FALSE

\* [prog, tag tokens..., "--", p] with p decodable
TagsSeparatorPositional(toks) ==
    /\ Len(toks) >= 3
    /\ toks[Len(toks) - 1] = Separator
    /\ decodes(toks[Len(toks)])
    /\ TagGroups(SubSeq(toks, 2, Len(toks) - 2))

\* the token after the last -i among the tag tokens
LastValue(toks) ==
    toks[1 + CHOOSE j \in 2..(Len(toks) - 2) :
                /\ toks[j] = TagI
                /\ \A i \in (j + 1)..(Len(toks) - 2) : toks[i] # TagI]

TagTokens(toks) == SubSeq(toks, 1, Len(toks) - 2)

ExampleStream == <<Prog, TagI, Tok4, TagF, Separator, Tok3>>

\* what C2 says of a parse of toks that started from args and left the
\* flag slot f, the value slot v and the positional slot p
C2_Holds(toks, f0, v0, f, v, p) ==
    /\ f.value = (f0.value \/ occurs(TagF, TagTokens(toks)))
    /\ f.target = IF occurs(TagF, TagTokens(toks)) THEN Some(TRUE)
                  ELSE f0.target
    /\ v.value = IF occurs(TagI, TagTokens(toks))
                 THEN Some(decode(LastValue(toks))) ELSE v0.value
    /\ v.target = IF occurs(TagI, TagTokens(toks))
                  THEN Some(decode(LastValue(toks))) ELSE v0.target
    /\ p.value = Some(decode(toks[Len(toks)]))
    /\ p.target = p.value
    /\ call.err = (IF is_valid(v) THEN "none" ELSE "invalid")
    /\ toks = ExampleStream
          => /\ v.value = Some(4) /\ v.target = Some(4)
             /\ f.value /\ f.target = Some(TRUE)
             /\ p.value = Some(3) /\ p.target = Some(3)

\* C2: on a registry of a flag -f, an int value slot -i and one positional
\* slot, all bound, a parse of [prog, tag tokens..., "--", p] sets the flag
\* if -f is among the tag tokens, gives the value slot the decode of the
\* token after the last -i, gives the positional slot decode(p), and the
\* bound variables hold the same values; for [prog,-i,4,-f,--,3] these are
\* 4, true and 3.  The parse fails only if the validator rejects the value.
C2_TagsThenSeparatorThenPositional ==
    (/\ call.op = "parse"
     /\ IsFixture(call.pre_arguments, call.pre_positional_arguments)
     /\ TagsSeparatorPositional(call.toks))
        => C2_Holds(call.toks,
                    call.pre_arguments[slot_with(arguments, TagF)],
                    call.pre_arguments[slot_with(arguments, TagI)],
                    arguments[slot_with(arguments, TagF)],
                    arguments[slot_with(arguments, TagI)],
                    positional_arguments[1])

\* the stream of the test parsed with success on a registry just declared
C2_Witness ==
    /\ call.op = "parse"
    /\ call.toks = ExampleStream
    /\ IsFixture(call.pre_arguments, call.pre_positional_arguments)
    /\ Fresh(call.pre_arguments, call.pre_positional_arguments)
    /\ call.err = "none"

\* [prog, p] and [prog, "--", p], p decodable and not a tag of the registry
OnlyPositional(toks) ==
    /\ toks \in {<<Prog, toks[Len(toks)]>>,
                 <<Prog, Separator, toks[Len(toks)]>>}
    /\ toks[Len(toks)] \notin {TagF, TagI, Separator}
    /\ decodes(toks[Len(toks)])

\* C3: on a registry of a flag, a value slot and one positional slot, a
\* parse of [prog, p] or of [prog, "--", p], p matching no tag, gives the
\* positional slot and its bound variable decode(p) and leaves the tag
\* slots as they were: a flag that was false is false and a value slot
\* without a value has none, also when [prog, "--", p] is parsed after
\* [prog, p].
C3_PositionalWithoutTags ==
    (/\ call.op = "parse"
     /\ call.toks # <<>>
     /\ IsFixture(call.pre_arguments, call.pre_positional_arguments)
     /\ OnlyPositional(call.toks))
        => /\ positional_arguments[1].value =
                  Some(decode(call.toks[Len(call.toks)]))
           /\ positional_arguments[1].target =
                  Some(decode(call.toks[Len(call.toks)]))
           /\ arguments = call.pre_arguments
           /\ call.err \in {"none", "invalid"}

\* [prog, "--", 3] parsed with success after a parse that gave the
\* positional slot 3, the flag being false and the value slot empty
C3_Witness ==
    /\ call.op = "parse"
    /\ call.toks = <<Prog, Separator, Tok3>>
    /\ IsFixture(call.pre_arguments, call.pre_positional_arguments)
    /\ call.pre_positional_arguments[1].value = Some(3)
    /\ positional_arguments[1].value = Some(3)
    /\ ~arguments[slot_with(arguments, TagF)].value
    /\ arguments[slot_with(arguments, TagI)].value = None
    /\ call.err = "none"

\* C4 as stated: after a parse of [prog, "--", t1..tn] on a registry of n
\* positional slots, every tk decodable, the k-th positional slot holds
\* decode(tk).
C4_Original ==
    (/\ call.op = "parse"
     /\ Len(call.toks) = 2 + Len(positional_arguments)
     /\ Len(positional_arguments) >= 1
     /\ call.toks[1] = Prog
     /\ call.toks[2] = Separator
     /\ \A k \in 1..Len(positional_arguments) : decodes(call.toks[2 + k]))
        => \A k \in 1..Len(positional_arguments) :
              positional_arguments[k].value = Some(decode(call.toks[2 + k]))

\* the end of the run of tokens after offset j: the last offset e such
\* that no token in j+1..e is tag-like
RunEnd(toks, j) ==
    CHOOSE e \in j..Len(toks) :
        /\ \A i \in (j + 1)..e : ~is_tag(toks[i])
        /\ e < Len(toks) => is_tag(toks[e + 1])

DecodedRun(toks, j) ==
    [i \in 1..(RunEnd(toks, j) - j) |-> decode(toks[j + i])]

\* toks holds the tag --n once, at j, no separator, and a run that decodes
OneRun(toks, j) ==
    /\ j \in 2..Len(toks)
    /\ \A i \in 2..Len(toks) : (toks[i] = TagInts) = (i = j)
    /\ ~occurs(Separator, toks)
    /\ \A i \in (j + 1)..RunEnd(toks, j) : decodes(toks[i])

\* C5 as stated, for the streams without a separator whose run decodes: on
\* a registry just declared, after a parse of a stream that holds the tag
\* of the multi-value slot once, the parse has ended inside the stream, the
\* slot's list is the decoded run of tokens after the tag, and the flag
\* whose tag ended the run is true.
C5_Original ==
    \A j \in 2..Len(call.toks) :
        (/\ call.op = "parse"
         /\ Fresh(call.pre_arguments, call.pre_positional_arguments)
         /\ \E k \in 1..Len(arguments) : arguments[k].tag = TagInts
         /\ OneRun(call.toks, j))
            => /\ call.err # "ub"
               /\ arguments[slot_with(arguments, TagInts)].value =
                      DecodedRun(call.toks, j)
               /\ \A k \in 1..Len(arguments) :
                     (/\ arguments[k].kind = "flag"
                      /\ RunEnd(call.toks, j) < Len(call.toks)
                      /\ call.toks[RunEnd(call.toks, j) + 1] =
                             arguments[k].tag)
                        => arguments[k].value

\* C6 as stated: a parse of a stream without the tag of a required value
\* slot fails and leaves the slot invalid, on a first parse and on a later
\* one.
C6_Original ==
    \A k \in 1..Len(arguments) :
        (/\ call.op = "parse"
         /\ arguments[k].kind = "value"
         /\ arguments[k].required
         /\ ~occurs(arguments[k].tag, call.toks))
            => call.err # "none" /\ ~is_valid(arguments[k])

\* C7 as stated: after a parse of a stream without the tag of a value slot
\* that is not required, the slot is valid and the parse has not failed
\* naming it, whatever the validator and the state the parse started from.
C7_Original ==
    \A k \in 1..Len(arguments) :
        (/\ call.op = "parse"
         /\ arguments[k].kind = "value"
         /\ ~arguments[k].required
         /\ ~occurs(arguments[k].tag, call.toks))
            => /\ is_valid(arguments[k])
               /\ ~(call.err = "invalid" /\ call.who = arguments[k].name)

\* a token equal to the tag or to the alternate tag of a is in the stream
\* after the program name
TagInStream(a, toks) == \E j \in 2..Len(toks) : matches(a, toks[j])

\* a token equal to a tag of a is in the stream after tokens that are tags
\* of flags: none before it is the separator or the tag of a slot that
\* takes the next token for its value
TagReached(args, a, toks) ==
    \E j \in 2..Len(toks) :
        /\ matches(a, toks[j])
        /\ \A i \in 2..(j - 1) :
              /\ toks[i] # Separator
              /\ \A k \in 1..Len(args) :
                    args[k].kind # "flag" => ~matches(args[k], toks[i])

\* C8: a flag is false when declared; it turns true only in a parse whose
\* stream holds its tag or its alternate tag; it is true after every parse
\* that reaches such a token in the tag phase; once true it is true after
\* every later call, parses of streams without the tag included.
C8_FlagFalseUntilTagThenTrue ==
    \A k \in 1..Len(arguments) :
        arguments[k].kind = "flag"
            => /\ (call.op = "add_flag_argument" /\ call.slot = k)
                     => ~arguments[k].value
               /\ (k <= Len(call.pre_arguments) /\ call.pre_arguments[k].value)
                     => arguments[k].value
               /\ (/\ k <= Len(call.pre_arguments)
                   /\ ~call.pre_arguments[k].value
                   /\ arguments[k].value)
                     => /\ call.op = "parse"
                        /\ TagInStream(call.pre_arguments[k], call.toks)
               /\ (/\ call.op = "parse"
                   /\ TagReached(call.pre_arguments, call.pre_arguments[k],
                                 call.toks))
                     => arguments[k].value

\* a flag set through its alternate tag in an earlier parse is true after
\* a parse of a stream that holds neither of its tags
C8_Witness ==
    \E k \in 1..Len(arguments) :
        /\ arguments[k].kind = "flag"
        /\ arguments[k].alternate_tag = TagFlag
        /\ call.op = "parse"
        /\ call.toks # <<>>
        /\ ~TagInStream(arguments[k], call.toks)
        /\ call.pre_arguments[k].value
        /\ arguments[k].value

\* C9 as stated: a parse of a stream that holds at most the program name,
\* on a registry with a positional slot, fails, also after an earlier
\* successful parse.
C9_Original ==
    (/\ call.op = "parse"
     /\ Len(call.toks) <= 1
     /\ positional_arguments # <<>>)
        => call.err # "none"

\* C10 as stated: a parse that leaves a tag slot invalid fails and leaves
\* every positional slot's value and bound variable as before the parse.
C10_Original ==
    (/\ call.op = "parse"
     /\ find_invalid(arguments) # 0)
        => /\ call.err # "none"
           /\ positional_arguments = call.pre_positional_arguments

\* C11 as stated: no slot is required and has a default; set_default_value
\* on a required slot, and set_required on a slot that has a default, end
\* with a logic error and leave the slot as it was.
C11_Original ==
    /\ \A k \in 1..Len(arguments) :
          ~(arguments[k].required /\ arguments[k].default_value # None)
    /\ (/\ call.op = "set_default_value"
        /\ call.pre_arguments[call.slot].required)
          => call.err = "logic" /\ arguments = call.pre_arguments
    /\ (/\ call.op = "set_required"
        /\ call.pre_arguments[call.slot].default_value # None)
          => arguments = call.pre_arguments

\* C12: get_value on a value or multi-value slot that is required and
\* holds no value throws, get_value on a value slot without a value throws
\* whether the slot is required or not, nothing is returned, and the call
\* leaves every slot as it was.
C12_GetValueWithoutValueThrows ==
    call.op = "get_value"
        => /\ arguments = call.pre_arguments
           /\ positional_arguments = call.pre_positional_arguments
           /\ (/\ arguments[call.slot].kind \in {"value", "multi"}
               /\ arguments[call.slot].required
               /\ arguments[call.slot].value = <<>>)
                 => call.err = "runtime" /\ call.ret = None
           /\ (/\ arguments[call.slot].kind = "value"
               /\ arguments[call.slot].value = <<>>)
                 => call.err = "runtime" /\ call.ret = None

\* get_value has thrown on a value slot that is not required and has no
\* value
C12_Witness ==
    /\ call.op = "get_value"
    /\ arguments[call.slot].kind = "value"
    /\ ~arguments[call.slot].required
    /\ arguments[call.slot].value = <<>>
    /\ call.err = "runtime"

\* the slot holds a value a bound variable can show
HoldsValue(a) ==
    IF "kind" \notin DOMAIN a THEN a.value # None
    ELSE IF a.kind = "flag" THEN a.value
    ELSE a.value # <<>>

\* the bound variable of the slot equals its stored value
InSync(a) ==
    a.target = Some(IF "kind" \in DOMAIN a THEN stored(a) ELSE a.value[1])

\* C13 as stated: after a parse in which a slot that was bound before the
\* parse took a value from the stream (its stored value is not the one it
\* had), the bound variable equals the stored value.
C13_Original ==
    call.op = "parse"
        => /\ \A k \in 1..Len(arguments) :
                 (/\ call.pre_arguments[k].bound
                  /\ arguments[k].value # call.pre_arguments[k].value)
                    => InSync(arguments[k])
           /\ \A k \in 1..Len(positional_arguments) :
                 (/\ call.pre_positional_arguments[k].bound
                  /\ positional_arguments[k].value #
                         call.pre_positional_arguments[k].value)
                    => InSync(positional_arguments[k])

\* C14 as stated: in every state a bound slot that holds a value has its
\* bound variable equal to the stored value, bind having copied the value
\* a slot already held.
C14_Original ==
    /\ \A k \in 1..Len(arguments) :
          (arguments[k].bound /\ HoldsValue(arguments[k]))
             => InSync(arguments[k])
    /\ \A k \in 1..Len(positional_arguments) :
          (positional_arguments[k].bound
             /\ HoldsValue(positional_arguments[k]))
             => InSync(positional_arguments[k])

\* C15 as stated: after a parse that ended inside the stream, of a stream
\* without a separator that holds the tag of a multi-value slot once, with
\* a run that decodes, the slot's list is the decoded run, whatever the
\* list held before the parse.
C15_Original ==
    \A j \in 2..Len(call.toks) :
        (/\ call.op = "parse"
         /\ call.err # "ub"
         /\ \E k \in 1..Len(arguments) : arguments[k].tag = TagInts
         /\ OneRun(call.toks, j))
            => arguments[slot_with(arguments, TagInts)].value =
                   DecodedRun(call.toks, j)

\* what the validity rule of a tag slot gives for the slot a: a value is
\* present and the validator accepts it, or no value is present and the
\* slot is not required
ValueRule(a) ==
    \/ a.value # <<>> /\ Accepts(a.validator,
                                 IF a.kind = "multi" THEN a.value
                                 ELSE a.value[1])
    \/ a.value = <<>> /\ ~a.required

\* C16 as stated: is_valid() of a multi-value slot that is not required is
\* true whatever its validator and its list; is_valid() of a required one
\* is true iff the list is not empty and the validator accepts it.
C16_Original ==
    (call.op = "is_valid" /\ arguments[call.slot].kind = "multi")
        => call.ret[1].valid =
              IF arguments[call.slot].required
              THEN /\ arguments[call.slot].value # <<>>
                   /\ Accepts(arguments[call.slot].validator,
                              arguments[call.slot].value)
              ELSE TRUE

\* C17: is_valid() of a single-value slot is true iff a value is present
\* and the current validator accepts it, or no value is present and the
\* slot is not required; it does not call the validator when no value is
\* present; set_validator changes the validator and nothing else, so the
\* verdict follows the new validator without a new parse.
C17_ValueValidity ==
    /\ (call.op = "is_valid" /\ arguments[call.slot].kind = "value")
          => /\ call.ret[1].valid = ValueRule(arguments[call.slot])
             /\ arguments[call.slot].value = <<>> => call.ret[1].calls = 0
    /\ (call.op = "set_validator" /\ arguments[call.slot].kind = "value")
          => /\ arguments[call.slot] =
                    [call.pre_arguments[call.slot] EXCEPT
                        !.validator = arguments[call.slot].validator]
             /\ is_valid(arguments[call.slot]) =
                    ValueRule(arguments[call.slot])

\* set_validator has turned a valid single-value slot that holds 4 into an
\* invalid one
C17_Witness ==
    /\ call.op = "set_validator"
    /\ arguments[call.slot].kind = "value"
    /\ arguments[call.slot].value = Some(4)
    /\ is_valid(call.pre_arguments[call.slot])
    /\ ~is_valid(arguments[call.slot])

\* C18 as stated: after a parse of a stream whose last token is the tag of
\* a value slot, reached as a tag (no token before it is the separator or
\* the tag of a value slot), no token outside the stream has been read and
\* the slot's value and bound variable are as before the parse.
C18_Original ==
    \A k \in 1..Len(arguments) :
        (/\ call.op = "parse"
         /\ arguments[k].kind = "value"
         /\ Len(call.toks) >= 2
         /\ call.toks[Len(call.toks)] = arguments[k].tag
         /\ \A i \in 2..(Len(call.toks) - 1) :
               call.toks[i] \notin {Separator, arguments[k].tag})
            => /\ ~call.oob
               /\ arguments[k].value = call.pre_arguments[k].value
               /\ arguments[k].target = call.pre_arguments[k].target

\* the token after the first -i of the stream
FirstValue(toks) ==
    toks[1 + CHOOSE j \in 2..Len(toks) :
                /\ toks[j] = TagI
                /\ \A i \in 2..(j - 1) : toks[i] # TagI]

\* C19 as stated: in a parse of a stream of tag groups -f and -i n, the
\* value slot keeps the value it stored first: the decode of the token
\* after the first -i, whatever tokens follow in the same stream.
C19_Original ==
    (/\ call.op = "parse"
     /\ call.toks # <<>>
     /\ \E k \in 1..Len(arguments) : arguments[k].tag = TagI
     /\ TagGroups(Tail(call.toks))
     /\ occurs(TagI, call.toks))
        => arguments[slot_with(arguments, TagI)].value =
               Some(decode(FirstValue(call.toks)))

\* C20 as stated: on a registry of a flag -f, an int value slot -i and one
\* positional slot, the parses of [prog,-i,4,-f,3] and of [prog,3,-f]
\* succeed and leave the flag true and the positional slot holding 3, and
\* the first leaves the value slot holding 4.
C20_Original ==
    (/\ call.op = "parse"
     /\ IsFixture(call.pre_arguments, call.pre_positional_arguments)
     /\ call.toks \in {<<Prog, TagI, Tok4, TagF, Tok3>>,
                       <<Prog, Tok3, TagF>>})
        => /\ call.err = "none"
           /\ arguments[slot_with(arguments, TagF)].value
           /\ positional_arguments[1].value = Some(3)
           /\ call.toks[2] = TagI
                 => arguments[slot_with(arguments, TagI)].value = Some(4)

---------------------------------------------------------------------------
(* Short streams *)

\* some slot of the two vectors is invalid
SomeInvalid(args, pargs) ==
    \/ \E k \in 1..Len(args) : ~arg_is_valid(args[k])
    \/ \E k \in 1..Len(pargs) : ~arg_is_valid(pargs[k])

---------------------------------------------------------------------------
(* The slot a validation error names *)

\* the indices of the invalid slots of a vector
InvalidSlots(slots) == {k \in 1..Len(slots) : ~arg_is_valid(slots[k])}

\* the least index in a non-empty set of indices
Least(S) == CHOOSE k \in S : \A j \in S : k <= j

\* C22: a parse that ends with the validation error names the first
\* invalid tag slot in declaration order when some tag slot is invalid,
\* however many tag and positional slots are invalid; it names a
\* positional slot only when every tag slot is valid, and then the first
\* invalid positional slot in declaration order.  A parse that ends
\* without an error leaves no invalid slot.
C22_FirstInvalidSlotIsNamed ==
    call.op = "parse" =>
        /\ call.err = "invalid" =>
              IF InvalidSlots(arguments) # {}
              THEN call.who = arguments[Least(InvalidSlots(arguments))].name
              ELSE /\ InvalidSlots(positional_arguments) # {}
                   /\ call.who =
                         positional_arguments[
                             Least(InvalidSlots(positional_arguments))].name
        /\ call.err = "none" =>
              /\ InvalidSlots(arguments) = {}
              /\ InvalidSlots(positional_arguments) = {}

\* a parse ended with the validation error while two tag slots and two
\* positional slots were invalid
C22_Witness ==
    /\ call.op = "parse"
    /\ call.err = "invalid"
    /\ Cardinality(InvalidSlots(arguments)) = 2
    /\ Cardinality(InvalidSlots(positional_arguments)) = 2

---------------------------------------------------------------------------
(* Tag-like tokens *)

\* s starts with exactly one dash followed by a character that is no digit
OneDashThenNonDigit(s) ==
    Len(s) > 1 /\ s[1] = "-" /\ s[2] # "-" /\ s[2] \notin Digits

\* s starts with two dashes followed by a character that is no digit
TwoDashesThenNonDigit(s) ==
    Len(s) > 2 /\ s[1] = "-" /\ s[2] = "-" /\ s[3] \notin Digits

\* C23: is_tag(s) is true exactly for the tokens that are not the
\* separator "--" and either start with one dash followed by a non-digit
\* or start with two dashes followed by a non-digit (and so are longer
\* than two characters); "-5" and "--5" are not tag-like, "-x" and "--x"
\* are.
C23_Original ==
    call.op = "is_tag" =>
        call.ret = Some(/\ call.toks[1] # Separator
                        /\ \/ OneDashThenNonDigit(call.toks[1])
                           \/ TwoDashesThenNonDigit(call.toks[1]))

---------------------------------------------------------------------------
(* Decoding a token *)

\* s is blanks, then an optional sign, then one or more digits up to its
\* last character
IsNumeral(s) ==
    \E b \in 1..Len(s) :
        /\ \A j \in b..Len(s) : s[j] \in Digits
        /\ \A j \in 1..(b - 1) : s[j] \in {" ", "-", "+"}
        /\ \A j \in 1..(b - 2) : s[j] = " "

\* C24: parse_scalar<int> succeeds only if the whole token was consumed: a
\* token with any character after the number, and the empty token, fail
\* with an error whose message holds the token; the numerals of at most
\* MaxToken characters all decode.  parse_scalar<std::string> returns the
\* token itself.
C24_WholeTokenIsDecoded ==
    call.op = "parse_scalar" =>
        LET r == call.ret[1]
            s == call.toks[1]
        IN  /\ r.typ = "string" => r.ok /\ r.val = s
            /\ r.typ = "int" => (r.ok <=> IsNumeral(s))
            /\ ~r.ok => /\ call.err = "runtime"
                        /\ Len(r.what) = 3 /\ r.what[2] = s

\* parse_scalar<int>("5x") threw
C24_Witness ==
    /\ call.op = "parse_scalar"
    /\ call.toks = <<<<"5", "x">>>>
    /\ call.ret[1].typ = "int"
    /\ ~call.ret[1].ok

---------------------------------------------------------------------------
(* Decimal tokens *)

\* C25: for every integer n of -MaxNumber..MaxNumber, negative ones
\* included, the decimal token of n decodes to n where a slot consumes it:
\* as the value of a single-value int slot, as an element of a multi-value
\* int list, and as a positional token, with or without a separator
\* before it.
C25_DecimalTokenRoundTrip ==
    call.op = "parse" =>
        \A n \in Numbers :
            /\ call.toks = <<Prog, TagI, to_string(n)>> =>
                  \A k \in 1..Len(arguments) :
                      arguments[k].tag = TagI =>
                          arguments[k].value = Some(n)
            /\ \A m \in Numbers :
                  call.toks = <<Prog, TagInts, to_string(n), to_string(m)>> =>
                      \A k \in 1..Len(arguments) :
                          arguments[k].tag = TagInts =>
                              arguments[k].value = <<n, m>>
            /\ call.toks \in {<<Prog, to_string(n)>>,
                              <<Prog, Separator, to_string(n)>>} =>
                  /\ call.err = "none"
                  /\ \A k \in 1..Len(positional_arguments) :
                        /\ positional_arguments[k].value = Some(n)
                        /\ positional_arguments[k].target = Some(n)

\* a multi-value slot took two negative numbers, one of two digits
C25_Witness ==
    /\ call.op = "parse"
    /\ call.toks = <<Prog, TagInts, <<"-", "1", "0">>, <<"-", "1">>>>
    /\ \E k \in 1..Len(arguments) : arguments[k].value = <<-10, -1>>

---------------------------------------------------------------------------
(* The scan position *)

\* C26 as stated: during a parse the scan position never goes beyond the
\* length of the stream and no token is read outside it, in the tag phase
\* and in the positional phase, for every stream and registry, a stream
\* whose last token is the tag of a multi-value slot included.
C26_Original == call.op = "parse" => ~call.oob

\* C27 as stated: parse terminates for every finite stream and registry:
\* the scan position grows in each iteration of the tag loop and of the
\* positional loop until it equals the length of the stream, so every
\* parse ends by returning or by throwing to its caller.
C27_Original == call.op = "parse" => call.err # "ub"

---------------------------------------------------------------------------
(* The separator *)

\* the index of the first separator of a stream that has one
FirstSeparator(toks) ==
    CHOOSE j \in 1..Len(toks) :
        /\ toks[j] = Separator
        /\ \A i \in 1..(j - 1) : toks[i] # Separator

\* the tag loop comes to the token at index j: no value slot of args takes
\* it for its value, and none fails on a token before it
TagPhaseReaches(args, toks, j) ==
    \A k \in 1..Len(args) :
        args[k].kind = "value" =>
            /\ toks[j - 1] # args[k].tag
            /\ \A i \in 2..(j - 2) :
                  toks[i] = args[k].tag => decodes(toks[i + 1])

\* slot k of arguments is as the parse found it
Untouched(k) ==
    /\ arguments[k].value = call.pre_arguments[k].value
    /\ arguments[k].target = call.pre_arguments[k].target

\* C28: once the tag loop comes to a token "--", tag scanning ends: no
\* token at or after it is offered to a tag slot, so a slot whose tag is
\* not among the tokens before the separator is left as it was (parsing
\* [p, --, -f] leaves the flag false); positional scanning starts just
\* after the separator: with no token after it the positional slots are
\* left as they were, else they hold the last token if every token after
\* the separator decodes, and the parse fails on the first that does not.
C28_SeparatorEndsTagScanning ==
    (/\ call.op = "parse"
     /\ occurs(Separator, call.toks)
     /\ TagPhaseReaches(call.pre_arguments, call.toks,
                        FirstSeparator(call.toks)))
        => LET j == FirstSeparator(call.toks)
               n == Len(call.toks)
           IN  /\ ~call.oob
               /\ \A k \in 1..Len(arguments) :
                     (\A i \in 2..(j - 1) : call.toks[i] # arguments[k].tag)
                         => Untouched(k)
               /\ j = n =>
                     /\ positional_arguments = call.pre_positional_arguments
                     /\ call.err \in {"none", "invalid"}
               /\ (j < n /\ positional_arguments # <<>>) =>
                     IF \A i \in (j + 1)..n : decodes(call.toks[i])
                     THEN /\ call.err \in {"none", "invalid"}
                          /\ \A k \in 1..Len(positional_arguments) :
                                positional_arguments[k].value =
                                    Some(decode(call.toks[n]))
                     ELSE call.err = "decode"

\* [p, --, -f] was parsed with a flag -f declared, and the flag is false
C28_Witness ==
    /\ call.op = "parse"
    /\ call.toks = <<Prog, Separator, TagF>>
    /\ \E k \in 1..Len(arguments) :
          arguments[k].tag = TagF /\ arguments[k].value = FALSE

---------------------------------------------------------------------------
(* The positional phase without a separator *)

\* C29: when the stream holds no separator and a positional slot is
\* declared, the positional loop starts again at the token after the
\* program name and offers every token to the positional slots, the ones
\* the tag slots consumed included: a parse that gets through the
\* positional phase has decoded every token into the positional type and
\* leaves each positional slot, and its bind target, with the value of the
\* last token; a stream in which every token decodes gets through it.
C29_PositionalPhaseRestarts ==
    (/\ call.op = "parse"
     /\ Len(call.toks) > 1
     /\ ~occurs(Separator, call.toks)
     /\ positional_arguments # <<>>)
        => LET n == Len(call.toks)
               held == \A k \in 1..Len(positional_arguments) :
                          /\ positional_arguments[k].value =
                                 Some(decode(call.toks[n]))
                          /\ positional_arguments[k].target =
                                 Some(decode(call.toks[n]))
           IN  /\ call.err \in {"none", "invalid"} =>
                     (\A i \in 2..n : decodes(call.toks[i])) /\ held
               /\ (\A i \in 2..n : decodes(call.toks[i])) =>
                     call.err \in {"none", "invalid"} /\ held
               /\ (\E i \in 2..n : ~decodes(call.toks[i])) =>
                     call.err = "decode"

\* the flag took -f in the tag phase and the parse then failed decoding a
\* token for the first positional slot, which holds the token before -f
C29_Witness ==
    /\ call.op = "parse"
    /\ call.toks = <<Prog, Tok3, TagF>>
    /\ call.err = "decode"
    /\ call.who = "p1"
    /\ Len(positional_arguments) = 2
    /\ positional_arguments[1].value = Some(3)
    /\ \E k \in 1..Len(arguments) : arguments[k].value = TRUE

---------------------------------------------------------------------------
(* The token a single-value slot consumes *)

\* C30 as stated: a single-value slot whose tag is matched consumes
\* exactly the one token after the tag as its value, whatever that token
\* is (tag-like, the separator), and the token after the consumed value is
\* the next one offered to the tag slots: in a stream [p, -s, t] the slot
\* -s holds t and no other slot is offered a token.
C30_Original ==
    (/\ call.op = "parse"
     /\ Len(call.toks) = 3
     /\ call.toks[2] = TagS
     /\ Declared(TagS))
        => \A k \in 1..Len(arguments) :
              IF arguments[k].tag = TagS
              THEN arguments[k].value = Some(call.toks[3])
              ELSE Untouched(k)

\* C31 as stated: a token that a slot consumed as its value is never also
\* matched as a tag by another slot in the same parse: in every
\* declaration order of a string value slot -s and a flag -f, the parse of
\* [p, -s, -f] leaves a flag that was false false.
C31_Original ==
    (/\ call.op = "parse"
     /\ call.toks = <<Prog, TagS, TagF>>
     /\ Declared(TagS))
        => \A k \in 1..Len(arguments) :
              (arguments[k].tag = TagF /\ ~call.pre_arguments[k].value)
                  => ~arguments[k].value

\* C32 as stated: a separator that follows the values of a multi-value
\* slot still ends tag scanning and is not taken as a value: the parse of
\* [p, --n, 3, 4, --, 3] with a multi-value int slot --n without values
\* and one int positional slot yields the list [3, 4] and the positional
\* value 3.
C32_Original ==
    (/\ call.op = "parse"
     /\ call.toks = <<Prog, TagInts, Tok3, Tok4, Separator, Tok3>>
     /\ Len(call.pre_arguments) = 1
     /\ call.pre_arguments[1].kind = "multi"
     /\ call.pre_arguments[1].value = <<>>
     /\ Len(positional_arguments) = 1)
        => /\ call.err = "none"
           /\ arguments[1].value = <<3, 4>>
           /\ positional_arguments[1].value = Some(3)

---------------------------------------------------------------------------
(* What a parse leaves alone *)

\* C33: a parse whose stream holds no token that matches the tag of a
\* bound tag slot leaves the stored value and the bind target of that slot
\* as they were; a bind target is written only in the step in which its
\* own slot consumes a token, and then with the value the slot stored.
C33_UnmatchedSlotIsLeftAlone ==
    call.op = "parse" =>
        \A k \in 1..Len(arguments) :
            /\ ~TagInStream(call.pre_arguments[k], call.toks) => Untouched(k)
            /\ arguments[k].target # call.pre_arguments[k].target =>
                  /\ TagInStream(call.pre_arguments[k], call.toks)
                  /\ InSync(arguments[k])

\* the parse of [p, -f] set the flag and its bind target and left the
\* value 4 and the bind target of the slot -i, which an earlier parse gave
C33_Witness ==
    /\ call.op = "parse"
    /\ call.toks = <<Prog, TagF>>
    /\ \E k \in 1..Len(arguments) :
          /\ arguments[k].tag = TagF
          /\ ~call.pre_arguments[k].value
          /\ arguments[k].target = Some(TRUE)
    /\ \E k \in 1..Len(arguments) :
          /\ arguments[k].tag = TagI
          /\ arguments[k].value = Some(4)
          /\ arguments[k].target = Some(4)

\* C34: in the tag phase a token that matches no declared tag slot and is
\* not the separator, tag-like or not, changes no slot value and no bind
\* target and raises no error, and the scan goes on with the token after
\* it: a stream of such tokens leaves the tag slots as they were and
\* fails, if at all, in the positional phase or in the validity checks;
\* and the tag slots end as in the parse of the stream without its first
\* token, when that token is such a token.
C34_UnmatchedTokenIsStepped ==
    LET unmatched(t) ==
            /\ t # Separator
            /\ \A k \in 1..Len(call.pre_arguments) :
                  ~matches(call.pre_arguments[k], t)
        n == Len(call.toks)
    IN  call.op = "parse" =>
            /\ (\A i \in 2..n : unmatched(call.toks[i])) =>
                  /\ arguments = call.pre_arguments
                  /\ ~call.oob
                  /\ positional_arguments = <<>> =>
                        call.err \in {"none", "invalid"}
            /\ (n > 1 /\ unmatched(call.toks[2])) =>
                  \E g \in Garbage :
                      arguments =
                          command_line_parse(call.pre_arguments, <<>>,
                              <<Prog>> \o SubSeq(call.toks, 3, n),
                              g).arguments

\* -i is declared by no slot: the parse of [p, -i, -f] stepped over it and
\* set the flag
C34_Witness ==
    /\ call.op = "parse"
    /\ call.toks = <<Prog, TagI, TagF>>
    /\ call.err = "none"
    /\ Len(arguments) = 1
    /\ ~call.pre_arguments[1].value
    /\ arguments[1].value

---------------------------------------------------------------------------
(* Values after a validation error *)

\* C35: a parse that ends with the validation error does not roll back
\* what it decoded: a single-value slot holds the token after the last
\* occurrence of its tag, a multi-value slot has the run after its tag
\* appended to its list, and a slot that holds a value is valid as soon as
\* its validator is replaced with one that accepts the value, without a
\* new parse.
C35_NoRollbackOnValidationError ==
    (call.op = "parse" /\ call.err = "invalid") =>
        \A k \in 1..Len(arguments) :
            LET a == arguments[k]
                last == CHOOSE j \in 2..Len(call.toks) :
                            /\ call.toks[j] = a.tag
                            /\ \A i \in (j + 1)..Len(call.toks) :
                                  call.toks[i] # a.tag
            IN  /\ (a.kind = "value" /\ occurs(a.tag, call.toks)) =>
                      a.value = Some(decode(call.toks[last + 1]))
                /\ (/\ a.kind = "multi"
                    /\ occurs(a.tag, call.toks)
                    /\ OneRun(call.toks, last)) =>
                      a.value = call.pre_arguments[k].value
                                    \o DecodedRun(call.toks, last)
                /\ has_value(a) =>
                      is_valid(apply_setter(a, <<"set_validator",
                                                 DefaultValidator>>))

\* the parse of [p, --n, 3, 4] failed on the validator "all less than 3"
\* and the list holds 3 and 4
C35_Witness ==
    /\ call.op = "parse"
    /\ call.toks = <<Prog, TagInts, Tok3, Tok4>>
    /\ call.err = "invalid"
    /\ Len(arguments) = 1
    /\ arguments[1].validator = "all_less_than_3"
    /\ arguments[1].value = <<3, 4>>

\* C36 as stated: when a token fails to decode, the slot whose parse step
\* tried to decode it has the stored value and the bind target it had
\* before that step; for a slot whose tag is in the stream once, that is
\* what it had before the parse.
C36_Original ==
    (call.op = "parse" /\ call.err = "decode" /\ ~call.oob) =>
        \A k \in 1..Len(arguments) :
            (/\ arguments[k].name = call.who
             /\ Cardinality({i \in 2..Len(call.toks) :
                                call.toks[i] = arguments[k].tag}) = 1)
                => Untouched(k)

---------------------------------------------------------------------------
(* Matching a tag *)

\* C37: a token matches a tag slot iff it is equal, character for
\* character, to the non-empty tag of the slot or to its non-empty
\* alternate tag: a prefix or an extension of a tag does not match, and
\* the empty token matches no slot, whether its tag or its alternate tag
\* is empty or not.
C37_MatchIsExactEquality ==
    LET same(s, t) ==
            /\ Len(t) > 0
            /\ Len(s) = Len(t)
            /\ \A i \in 1..Len(t) : s[i] = t[i]
    IN  call.op = "matches" =>
            LET r == call.ret[1]
                s == call.toks[1]
            IN  /\ r.matched <=> (same(s, r.tag) \/ same(s, r.alternate_tag))
                /\ s = <<>> => ~r.matched
                /\ (Len(s) # Len(r.tag) /\ Len(s) # Len(r.alternate_tag))
                      => ~r.matched

\* the prefix "-" of the tag -x and of the alternate tag --x matched
\* neither
C37_Witness ==
    /\ call.op = "matches"
    /\ call.toks = <<<<"-">>>>
    /\ call.ret[1].tag = <<"-", "x">>
    /\ call.ret[1].alternate_tag = <<"-", "-", "x">>
    /\ ~call.ret[1].matched

---------------------------------------------------------------------------
(* Reading a value *)

\* C38 as stated, for tag slots: get_value() on a single-value or
\* multi-value slot returns the stored value iff is_valid() holds and a
\* value is present, and fails otherwise.
C38_Original ==
    (/\ call.op = "get_value"
     /\ arguments[call.slot].kind \in {"value", "multi"})
        => LET a == arguments[call.slot]
           IN  IF is_valid(a) /\ has_value(a)
               THEN call.err = "none" /\ call.ret = Some(stored(a))
               ELSE call.err = "runtime" /\ call.ret = None

---------------------------------------------------------------------------
(* Parsing twice *)

\* C39 as stated: on a registry of flag, single-value and positional
\* slots, a second parse of the stream just parsed ends with the slot
\* values, the bind targets and the outcome of the first.
C39_Original ==
    call.op = "parse" =>
        \A r \in outcomes(arguments, positional_arguments, call.toks,
                          command_line_parse(arguments, positional_arguments,
                                             call.toks, Trap)) :
            /\ r.arguments = arguments
            /\ r.positional_arguments = positional_arguments
            /\ r.err = call.err
            /\ r.who = call.who

---------------------------------------------------------------------------
(* A rejected declaration *)

\* C40: a declaration of a tag slot that is rejected because a positional
\* slot exists leaves the registry as it was: the list of tag slots and
\* the list of positional slots, with the values and bind targets they
\* hold, are those before the call, and a parse that follows ends as it
\* would have ended on the registry before the call.
C40_RejectedDeclarationChangesNothing ==
    (call.op \in TagAddOps /\ call.err = "logic") =>
        /\ call.pre_positional_arguments # <<>>
        /\ arguments = call.pre_arguments
        /\ positional_arguments = call.pre_positional_arguments
        /\ \A toks \in TestStreams \cup LongStreams :
              outcomes(arguments, positional_arguments, toks,
                       command_line_parse(arguments, positional_arguments,
                                          toks, Trap))
                  = outcomes(call.pre_arguments,
                             call.pre_positional_arguments, toks,
                             command_line_parse(call.pre_arguments,
                                 call.pre_positional_arguments, toks, Trap))

\* add_flag_argument was rejected on a registry whose positional slot holds
\* the value 3 of an earlier parse
C40_Witness ==
    /\ call.op = "add_flag_argument"
    /\ call.err = "logic"
    /\ Len(positional_arguments) = 1
    /\ positional_arguments[1].value = Some(3)
    /\ \A k \in 1..Len(arguments) : arguments[k].tag # TagF

====
